---- MODULE Spec2Model ----
(***************************************************************************)
(* Linked sequence containers of RogWilco/TypeScript-Data-Structures:      *)
(*   - DoublyLinkedList<T>  (generic, head/tail anchors, prev/next links)   *)
(*   - LinkedList<T>        (singly linked, head anchor, next links)        *)
(*   - DoublyLinkedList     (the earlier, non-generic doubly-linked list)   *)
(* Nodes are identities 1..NumNodes; Null (0) is the absent reference.      *)
(* Every method is a pure operator from a list record to a list record,     *)
(* written statement by statement after the TypeScript source; the actions  *)
(* apply one method call per step to the list under study.                  *)
(***************************************************************************)
EXTENDS Integers, Sequences, FiniteSets, TLC

\* ---------------------------------------------------------------- bounds
NumNodes == 3
NumValues == 2
MaxPos == 5
NegPos == 1
MaxArgs == 4

Null == 0
Nodes == 1..NumNodes
Values == 1..NumValues
Positions == (0 - NegPos)..MaxPos
Fuel == NumNodes + 1

VARIABLES variant, value, dll, sll, ndl, last

vars == <<variant, value, dll, sll, ndl, last>>

\* ------------------------------------------------------------ Node<T>
\* new Node(value): prev = next = null for every node of the pool
NoLinks == [n \in Nodes |-> Null]

\* new DoublyLinkedList<T>(): head = tail = null
D_empty == [head |-> Null, tail |-> Null, prev |-> NoLinks, next |-> NoLinks]

\* new LinkedList<T>(): head = null
L_empty == [head |-> Null, next |-> NoLinks]

\* result of a method call: the list afterwards, the error raised (if any)
\* and the counter i interpolated into the error message
Ok(l) == [list |-> l, err |-> "none", i |-> 0]

\* result of a query: the list is left as it is, x is the value returned
Ret(l, x) == [list |-> l, err |-> "none", i |-> 0, ret |-> x]

\* ------------------------------------------------- forward traversal
\* let node = this.head; while (node) { result.push(node...); node = node.next }
\* cut off after `fuel` nodes so that a cyclic chain yields an over-long
\* sequence instead of an endless evaluation
RECURSIVE FwdFrom(_, _, _)
FwdFrom(nx, node, fuel) ==
  IF node = Null \/ fuel = 0 THEN <<>>
  ELSE <<node>> \o FwdFrom(nx, nx[node], fuel - 1)

Forward(l) == FwdFrom(l.next, l.head, Fuel)

InList(l) == {Forward(l)[k] : k \in 1..Len(Forward(l))}

\* Array.prototype.join: the entries with the separator between neighbours
RECURSIVE Join(_, _)
Join(vs, sep) ==
  IF Len(vs) = 0 THEN <<>>
  ELSE IF Len(vs) = 1 THEN <<vs[1]>>
  ELSE <<vs[1], sep>> \o Join(Tail(vs), sep)

\* the separators ' <-> ' and ' -> ', as tokens distinct from every value
SepDoubly == 0 - 2
SepSingly == 0 - 1

\* result.push(node.value) for every node of the traversal
ValuesOf(l, val) == [k \in 1..Len(Forward(l)) |-> val[Forward(l)[k]]]

\* ======================================================================
\*  DoublyLinkedList<T>
\* ======================================================================

\* remove(node) without the update of this.tail
D_remove_noTail(l, node) ==
  IF node # l.head /\ l.next[node] = Null /\ l.prev[node] = Null THEN l
  ELSE
    LET l1 == IF l.next[node] # Null
                THEN [l EXCEPT !.prev[l.next[node]] = l.prev[node]]
                ELSE l
        l2 == IF l1.prev[node] # Null
                THEN [l1 EXCEPT !.next[l1.prev[node]] = l1.next[node]]
                ELSE [l1 EXCEPT !.head = l1.next[node]]
        l3 == [l2 EXCEPT !.next[node] = Null]
    IN  [l3 EXCEPT !.prev[node] = Null]

\* remove(node) without the early return for a node that is not in the list
D_remove_noGuard(l, node) ==
  LET l1 == IF l.next[node] # Null
              THEN [l EXCEPT !.prev[l.next[node]] = l.prev[node]]
              ELSE [l EXCEPT !.tail = l.prev[node]]
      l2 == IF l1.prev[node] # Null
              THEN [l1 EXCEPT !.next[l1.prev[node]] = l1.next[node]]
              ELSE [l1 EXCEPT !.head = l1.next[node]]
      l3 == [l2 EXCEPT !.next[node] = Null]
  IN  [l3 EXCEPT !.prev[node] = Null]

\* remove(node) that leaves node.next set
D_remove_keepNext(l, node) ==
  IF node # l.head /\ l.next[node] = Null /\ l.prev[node] = Null THEN l
  ELSE
    LET l1 == IF l.next[node] # Null
                THEN [l EXCEPT !.prev[l.next[node]] = l.prev[node]]
                ELSE [l EXCEPT !.tail = l.prev[node]]
        l2 == IF l1.prev[node] # Null
                THEN [l1 EXCEPT !.next[l1.prev[node]] = l1.next[node]]
                ELSE [l1 EXCEPT !.head = l1.next[node]]
    IN  [l2 EXCEPT !.prev[node] = Null]

\* remove(node) that treats the only node of the list as absent
D_remove_soleStays(l, node) ==
  IF l.next[node] = Null /\ l.prev[node] = Null THEN l
  ELSE
    LET l1 == IF l.next[node] # Null
                THEN [l EXCEPT !.prev[l.next[node]] = l.prev[node]]
                ELSE [l EXCEPT !.tail = l.prev[node]]
        l2 == IF l1.prev[node] # Null
                THEN [l1 EXCEPT !.next[l1.prev[node]] = l1.next[node]]
                ELSE [l1 EXCEPT !.head = l1.next[node]]
        l3 == [l2 EXCEPT !.next[node] = Null]
    IN  [l3 EXCEPT !.prev[node] = Null]

\* remove(node)
D_remove(l, node) ==
  IF node # l.head /\ l.next[node] = Null /\ l.prev[node] = Null THEN l
  ELSE
    LET \* if (node.next) node.next.prev = node.prev else this.tail = node.prev
        l1 == IF l.next[node] # Null
                THEN [l EXCEPT !.prev[l.next[node]] = l.prev[node]]
                ELSE [l EXCEPT !.tail = l.prev[node]]
        \* if (node.prev) node.prev.next = node.next else this.head = node.next
        l2 == IF l1.prev[node] # Null
                THEN [l1 EXCEPT !.next[l1.prev[node]] = l1.next[node]]
                ELSE [l1 EXCEPT !.head = l1.next[node]]
        \* node.next = null
        l3 == [l2 EXCEPT !.next[node] = Null]
        \* node.prev = null
    IN  [l3 EXCEPT !.prev[node] = Null]

\* insertBefore without `existingNode.prev = nodeToInsert`
D_insertBefore_noBackLink(l, existingNode, nodeToInsert) ==
  IF existingNode = nodeToInsert THEN l
  ELSE
    LET l1 == D_remove(l, nodeToInsert)
        l2 == [l1 EXCEPT !.next[nodeToInsert] = existingNode]
        l3 == [l2 EXCEPT !.prev[nodeToInsert] = l2.prev[existingNode]]
    IN  IF l3.prev[nodeToInsert] # Null
          THEN [l3 EXCEPT !.next[l3.prev[nodeToInsert]] = nodeToInsert]
          ELSE [l3 EXCEPT !.head = nodeToInsert]

\* insertBefore without the self-insertion check
D_insertBefore_noSelfCheck(l, existingNode, nodeToInsert) ==
  LET l1 == D_remove(l, nodeToInsert)
      l2 == [l1 EXCEPT !.next[nodeToInsert] = existingNode]
      l3 == [l2 EXCEPT !.prev[nodeToInsert] = l2.prev[existingNode]]
      l4 == IF l3.prev[nodeToInsert] # Null
              THEN [l3 EXCEPT !.next[l3.prev[nodeToInsert]] = nodeToInsert]
              ELSE [l3 EXCEPT !.head = nodeToInsert]
  IN  [l4 EXCEPT !.prev[existingNode] = nodeToInsert]

\* insertBefore that never moves this.head
D_insertBefore_noHead(l, existingNode, nodeToInsert) ==
  IF existingNode = nodeToInsert THEN l
  ELSE
    LET l1 == D_remove(l, nodeToInsert)
        l2 == [l1 EXCEPT !.next[nodeToInsert] = existingNode]
        l3 == [l2 EXCEPT !.prev[nodeToInsert] = l2.prev[existingNode]]
        l4 == IF l3.prev[nodeToInsert] # Null
                THEN [l3 EXCEPT !.next[l3.prev[nodeToInsert]] = nodeToInsert]
                ELSE l3
    IN  [l4 EXCEPT !.prev[existingNode] = nodeToInsert]

\* insertBefore(existingNode, nodeToInsert)
D_insertBefore(l, existingNode, nodeToInsert) ==
  IF existingNode = nodeToInsert THEN l
  ELSE
    LET \* this.remove(nodeToInsert)
        l1 == D_remove(l, nodeToInsert)
        \* nodeToInsert.next = existingNode
        l2 == [l1 EXCEPT !.next[nodeToInsert] = existingNode]
        \* nodeToInsert.prev = existingNode.prev
        l3 == [l2 EXCEPT !.prev[nodeToInsert] = l2.prev[existingNode]]
        \* if (nodeToInsert.prev) nodeToInsert.prev.next = nodeToInsert
        \* else this.head = nodeToInsert
        l4 == IF l3.prev[nodeToInsert] # Null
                THEN [l3 EXCEPT !.next[l3.prev[nodeToInsert]] = nodeToInsert]
                ELSE [l3 EXCEPT !.head = nodeToInsert]
        \* existingNode.prev = nodeToInsert
    IN  [l4 EXCEPT !.prev[existingNode] = nodeToInsert]

\* insertAfter without `nodeToInsert.next.prev = nodeToInsert`
D_insertAfter_noBackLink(l, existingNode, nodeToInsert) ==
  IF existingNode = nodeToInsert THEN l
  ELSE
    LET l1 == D_remove(l, nodeToInsert)
        l2 == [l1 EXCEPT !.prev[nodeToInsert] = existingNode]
        l3 == [l2 EXCEPT !.next[nodeToInsert] = l2.next[existingNode]]
        l4 == IF l3.next[nodeToInsert] # Null
                THEN l3
                ELSE [l3 EXCEPT !.tail = nodeToInsert]
    IN  [l4 EXCEPT !.next[existingNode] = nodeToInsert]

\* insertAfter without the self-insertion check
D_insertAfter_noSelfCheck(l, existingNode, nodeToInsert) ==
  LET l1 == D_remove(l, nodeToInsert)
      l2 == [l1 EXCEPT !.prev[nodeToInsert] = existingNode]
      l3 == [l2 EXCEPT !.next[nodeToInsert] = l2.next[existingNode]]
      l4 == IF l3.next[nodeToInsert] # Null
              THEN [l3 EXCEPT !.prev[l3.next[nodeToInsert]] = nodeToInsert]
              ELSE [l3 EXCEPT !.tail = nodeToInsert]
  IN  [l4 EXCEPT !.next[existingNode] = nodeToInsert]

\* insertAfter that never moves this.tail
D_insertAfter_noTail(l, existingNode, nodeToInsert) ==
  IF existingNode = nodeToInsert THEN l
  ELSE
    LET l1 == D_remove(l, nodeToInsert)
        l2 == [l1 EXCEPT !.prev[nodeToInsert] = existingNode]
        l3 == [l2 EXCEPT !.next[nodeToInsert] = l2.next[existingNode]]
        l4 == IF l3.next[nodeToInsert] # Null
                THEN [l3 EXCEPT !.prev[l3.next[nodeToInsert]] = nodeToInsert]
                ELSE l3
    IN  [l4 EXCEPT !.next[existingNode] = nodeToInsert]

\* insertAfter(existingNode, nodeToInsert)
D_insertAfter(l, existingNode, nodeToInsert) ==
  IF existingNode = nodeToInsert THEN l
  ELSE
    LET \* this.remove(nodeToInsert)
        l1 == D_remove(l, nodeToInsert)
        \* nodeToInsert.prev = existingNode
        l2 == [l1 EXCEPT !.prev[nodeToInsert] = existingNode]
        \* nodeToInsert.next = existingNode.next
        l3 == [l2 EXCEPT !.next[nodeToInsert] = l2.next[existingNode]]
        \* if (nodeToInsert.next) nodeToInsert.next.prev = nodeToInsert
        \* else this.tail = nodeToInsert
        l4 == IF l3.next[nodeToInsert] # Null
                THEN [l3 EXCEPT !.prev[l3.next[nodeToInsert]] = nodeToInsert]
                ELSE [l3 EXCEPT !.tail = nodeToInsert]
        \* existingNode.next = nodeToInsert
    IN  [l4 EXCEPT !.next[existingNode] = nodeToInsert]

\* setHead(node)
D_setHead(l, node) ==
  IF l.head = Null
    THEN [l EXCEPT !.head = node, !.tail = node]
    ELSE D_insertBefore(l, l.head, node)

\* setTail that inserts before the current tail
D_setTail_before(l, node) ==
  IF l.tail = Null
    THEN D_setHead(l, node)
    ELSE D_insertBefore(l, l.tail, node)

\* setTail(node)
D_setTail(l, node) ==
  IF l.tail = Null
    THEN D_setHead(l, node)
    ELSE D_insertAfter(l, l.tail, node)

\* the while loop of insertAtPosition: node = node.next; i++ while i < position.
\* Reading .next of null raises a TypeError; running off the end with
\* position > i raises the Error of the throw statement.
RECURSIVE D_walk(_, _, _, _)
D_walk(l, node, i, position) ==
  IF ~(i < position) THEN [node |-> node, i |-> i, err |-> "none"]
  ELSE IF node = Null THEN [node |-> node, i |-> i, err |-> "TypeError"]
  ELSE IF l.next[node] = Null /\ position > i + 1
    THEN [node |-> Null, i |-> i + 1, err |-> "Error"]
  ELSE D_walk(l, l.next[node], i + 1, position)

\* insertAtPosition that refuses positions below 1
D_insertAtPosition_validating(l, position, nodeToInsert) ==
  LET l1 == D_remove(l, nodeToInsert)
      w  == D_walk(l1, l1.head, 1, position)
  IN  IF position < 1 THEN [list |-> l1, err |-> "Error", i |-> 1]
      ELSE IF w.err # "none" THEN [list |-> l1, err |-> w.err, i |-> w.i]
      ELSE IF w.node = Null THEN Ok(D_setTail(l1, nodeToInsert))
      ELSE Ok(D_insertBefore(l1, w.node, nodeToInsert))

\* insertAtPosition that leaves the list as it was when the position is refused
D_insertAtPosition_checkFirst(l, position, nodeToInsert) ==
  LET l1 == D_remove(l, nodeToInsert)
      w  == D_walk(l1, l1.head, 1, position)
  IN  IF w.err # "none" THEN [list |-> l, err |-> w.err, i |-> w.i]
      ELSE IF w.node = Null THEN Ok(D_setTail(l1, nodeToInsert))
      ELSE Ok(D_insertBefore(l1, w.node, nodeToInsert))

\* insertAtPosition that places the node after the node found by the walk
D_insertAtPosition_after(l, position, nodeToInsert) ==
  LET l1 == D_remove(l, nodeToInsert)
      w  == D_walk(l1, l1.head, 1, position)
  IN  IF w.err # "none" THEN [list |-> l1, err |-> w.err, i |-> w.i]
      ELSE IF w.node = Null THEN Ok(D_setTail(l1, nodeToInsert))
      ELSE Ok(D_insertAfter(l1, w.node, nodeToInsert))

\* insertAtPosition(position, nodeToInsert)
D_insertAtPosition(l, position, nodeToInsert) ==
  LET l1 == D_remove(l, nodeToInsert)
      w  == D_walk(l1, l1.head, 1, position)
  IN  IF w.err # "none" THEN [list |-> l1, err |-> w.err, i |-> w.i]
      ELSE IF w.node = Null THEN Ok(D_setTail(l1, nodeToInsert))
      ELSE Ok(D_insertBefore(l1, w.node, nodeToInsert))

\* the while loop of removeNodesWithValue; `fuel` bounds the iterations
RECURSIVE D_removeLoop(_, _, _, _, _)
D_removeLoop(l, val, node, v, fuel) ==
  IF node = Null THEN Ok(l)
  ELSE IF fuel = 0 THEN [list |-> l, err |-> "nonterminating", i |-> 0]
  ELSE LET nextNode == l.next[node]
       IN  D_removeLoop(IF val[node] = v THEN D_remove(l, node) ELSE l,
                        val, nextNode, v, fuel - 1)

\* the loop of removeNodesWithValue reading node.next after remove(node)
RECURSIVE D_removeLoop_stale(_, _, _, _, _)
D_removeLoop_stale(l, val, node, v, fuel) ==
  IF node = Null THEN Ok(l)
  ELSE IF fuel = 0 THEN [list |-> l, err |-> "nonterminating", i |-> 0]
  ELSE LET l1 == IF val[node] = v THEN D_remove(l, node) ELSE l
       IN  D_removeLoop_stale(l1, val, l1.next[node], v, fuel - 1)

\* removeNodesWithValue that does not capture the successor before removing
D_removeNodesWithValue_stale(l, val, v) == D_removeLoop_stale(l, val, l.head, v, Fuel)

\* removeNodesWithValue(value)
D_removeNodesWithValue(l, val, v) == D_removeLoop(l, val, l.head, v, Fuel)

\* toString() joining with ' -> '
D_toString_arrow(l, val) == Join(ValuesOf(l, val), SepSingly)

\* toString()
D_toString(l, val) == Join(ValuesOf(l, val), SepDoubly)

\* the while loop of containsNodeWithValue; `fuel` bounds the iterations
RECURSIVE D_containsLoop(_, _, _, _, _)
D_containsLoop(l, val, node, v, fuel) ==
  IF node = Null THEN Ret(l, FALSE)
  ELSE IF fuel = 0 THEN [list |-> l, err |-> "nonterminating", i |-> 0, ret |-> FALSE]
  ELSE IF val[node] = v THEN Ret(l, TRUE)
  ELSE D_containsLoop(l, val, l.next[node], v, fuel - 1)

\* containsNodeWithValue that returns after looking at the head only
D_containsNodeWithValue_headOnly(l, val, v) ==
  IF l.head = Null THEN Ret(l, FALSE) ELSE Ret(l, val[l.head] = v)

\* the loop of containsNodeWithValue walking with this.head as its cursor
RECURSIVE D_containsLoop_consuming(_, _, _, _)
D_containsLoop_consuming(l, val, v, fuel) ==
  IF l.head = Null THEN Ret(l, FALSE)
  ELSE IF fuel = 0 THEN [list |-> l, err |-> "nonterminating", i |-> 0, ret |-> FALSE]
  ELSE IF val[l.head] = v THEN Ret(l, TRUE)
  ELSE D_containsLoop_consuming([l EXCEPT !.head = l.next[l.head]], val, v, fuel - 1)

\* containsNodeWithValue that advances this.head instead of a local cursor
D_containsNodeWithValue_consuming(l, val, v) == D_containsLoop_consuming(l, val, v, Fuel)

\* containsNodeWithValue that reads the head's value before testing for null
D_containsNodeWithValue_noNullTest(l, val, v) ==
  IF l.head = Null
    THEN [list |-> l, err |-> "TypeError", i |-> 0, ret |-> FALSE]
    ELSE D_containsLoop(l, val, l.head, v, Fuel)

\* containsNodeWithValue(value)
D_containsNodeWithValue(l, val, v) == D_containsLoop(l, val, l.head, v, Fuel)

\* the for loop of the constructor (i counts as in the source, from 1;
\* nodes[i - 1] and nodes[i] of the source are nodes[i] and nodes[i + 1] here)
RECURSIVE D_constructLoop(_, _, _)
D_constructLoop(l, nodes, i) ==
  IF ~(i < Len(nodes) /\ l.head # Null) THEN l
  ELSE D_constructLoop(D_insertAfter(l, nodes[i], nodes[i + 1]), nodes, i + 1)

\* the constructor loop inserting every node after nodes[0]
RECURSIVE D_constructLoop_afterFirst(_, _, _)
D_constructLoop_afterFirst(l, nodes, i) ==
  IF ~(i < Len(nodes) /\ l.head # Null) THEN l
  ELSE D_constructLoop_afterFirst(D_insertAfter(l, nodes[1], nodes[i + 1]), nodes, i + 1)

\* constructor that chains every node to the first argument
D_constructor_afterFirst(l, nodes) ==
  IF Len(nodes) # 0
    THEN D_constructLoop_afterFirst(D_setHead(l, nodes[1]), nodes, 1)
    ELSE l

\* constructor(...nodes), on the fresh list l
D_constructor(l, nodes) ==
  IF Len(nodes) # 0
    THEN D_constructLoop(D_setHead(l, nodes[1]), nodes, 1)
    ELSE l

\* ======================================================================
\*  LinkedList<T>
\* ======================================================================

\* the while loop of remove: scan from head for `node`, unlink it when found.
\* done = FALSE when the scan has not reached its exit after `fuel` nodes.
RECURSIVE L_scan(_, _, _, _, _)
L_scan(l, currentNode, previousNode, node, fuel) ==
  IF currentNode = Null THEN [list |-> l, done |-> TRUE]
  ELSE IF fuel = 0 THEN [list |-> l, done |-> FALSE]
  ELSE IF currentNode = node
    THEN [list |-> IF previousNode # Null
                     THEN [l EXCEPT !.next[previousNode] = l.next[currentNode]]
                     ELSE [l EXCEPT !.head = l.next[currentNode]],
          done |-> TRUE]
  ELSE L_scan(l, l.next[currentNode], currentNode, node, fuel - 1)

\* remove(node) that does not move this.head when node is the head
L_remove_noHead(l, node) ==
  IF l.head = node THEN [l EXCEPT !.next[node] = Null]
  ELSE [L_scan(l, l.head, Null, node, Fuel).list EXCEPT !.next[node] = Null]

\* remove(node)
L_remove(l, node) ==
  LET l1 == L_scan(l, l.head, Null, node, Fuel).list
      \* node.next = null
  IN  [l1 EXCEPT !.next[node] = Null]

\* setHead that does not detach node first
L_setHead_noRemove(l, node) ==
  IF l.head = Null THEN [l EXCEPT !.head = node]
  ELSE [l EXCEPT !.next[node] = l.head, !.head = node]

\* setHead(node)
L_setHead(l, node) ==
  IF l.head = Null THEN [l EXCEPT !.head = node]
  ELSE
    LET \* this.remove(node)
        l1 == L_remove(l, node)
        \* node.next = this.head
        l2 == [l1 EXCEPT !.next[node] = l1.head]
        \* this.head = node
    IN  [l2 EXCEPT !.head = node]

\* insertAfter that does not detach nodeToInsert first
L_insertAfter_noRemove(l, existingNode, nodeToInsert) ==
  IF existingNode = nodeToInsert THEN l
  ELSE
    LET l2 == [l EXCEPT !.next[nodeToInsert] = l.next[existingNode]]
    IN  [l2 EXCEPT !.next[existingNode] = nodeToInsert]

\* insertAfter with its two assignments in the opposite order
L_insertAfter_swapped(l, existingNode, nodeToInsert) ==
  IF existingNode = nodeToInsert THEN l
  ELSE
    LET l1 == L_remove(l, nodeToInsert)
        l2 == [l1 EXCEPT !.next[existingNode] = nodeToInsert]
    IN  [l2 EXCEPT !.next[nodeToInsert] = l2.next[existingNode]]

\* insertAfter(existingNode, nodeToInsert)
L_insertAfter(l, existingNode, nodeToInsert) ==
  IF existingNode = nodeToInsert THEN l
  ELSE
    LET \* this.remove(nodeToInsert)
        l1 == L_remove(l, nodeToInsert)
        \* nodeToInsert.next = existingNode.next
        l2 == [l1 EXCEPT !.next[nodeToInsert] = l1.next[existingNode]]
        \* existingNode.next = nodeToInsert
    IN  [l2 EXCEPT !.next[existingNode] = nodeToInsert]

\* the while loop of insertAtPosition, which trails previousNode behind
\* currentNode; errors as in the doubly-linked list
RECURSIVE L_walk(_, _, _, _, _)
L_walk(l, currentNode, previousNode, i, position) ==
  IF ~(i < position)
    THEN [node |-> currentNode, prev |-> previousNode, i |-> i, err |-> "none"]
  ELSE IF currentNode = Null
    THEN [node |-> currentNode, prev |-> currentNode, i |-> i, err |-> "TypeError"]
  ELSE IF l.next[currentNode] = Null /\ position > i + 1
    THEN [node |-> Null, prev |-> currentNode, i |-> i + 1, err |-> "Error"]
  ELSE L_walk(l, l.next[currentNode], currentNode, i + 1, position)

\* insertAtPosition that appends instead of throwing
L_insertAtPosition_clamp(l, position, nodeToInsert) ==
  LET l1 == L_remove(l, nodeToInsert)
      w  == L_walk(l1, l1.head, Null, 1, position)
  IN  IF w.prev = Null THEN Ok(L_setHead(l1, nodeToInsert))
      ELSE Ok(L_insertAfter(l1, w.prev, nodeToInsert))

\* insertAtPosition(position, nodeToInsert)
L_insertAtPosition(l, position, nodeToInsert) ==
  LET l1 == L_remove(l, nodeToInsert)
      w  == L_walk(l1, l1.head, Null, 1, position)
  IN  IF w.err # "none" THEN [list |-> l1, err |-> w.err, i |-> w.i]
      ELSE IF w.prev = Null THEN Ok(L_setHead(l1, nodeToInsert))
      ELSE Ok(L_insertAfter(l1, w.prev, nodeToInsert))

\* the while loop of removeNodesWithValue; `fuel` bounds the iterations
RECURSIVE L_removeLoop(_, _, _, _, _)
L_removeLoop(l, val, node, v, fuel) ==
  IF node = Null THEN Ok(l)
  ELSE IF fuel = 0 THEN [list |-> l, err |-> "nonterminating", i |-> 0]
  ELSE LET nextNode == l.next[node]
       IN  L_removeLoop(IF val[node] = v THEN L_remove(l, node) ELSE l,
                        val, nextNode, v, fuel - 1)

\* removeNodesWithValue that returns after the first node removed
RECURSIVE L_removeLoop_firstOnly(_, _, _, _, _)
L_removeLoop_firstOnly(l, val, node, v, fuel) ==
  IF node = Null THEN Ok(l)
  ELSE IF fuel = 0 THEN [list |-> l, err |-> "nonterminating", i |-> 0]
  ELSE IF val[node] = v THEN Ok(L_remove(l, node))
  ELSE L_removeLoop_firstOnly(l, val, l.next[node], v, fuel - 1)

\* removeNodesWithValue that removes one node at most
L_removeNodesWithValue_firstOnly(l, val, v) == L_removeLoop_firstOnly(l, val, l.head, v, Fuel)

\* removeNodesWithValue(value)
L_removeNodesWithValue(l, val, v) == L_removeLoop(l, val, l.head, v, Fuel)

\* toString()
L_toString(l, val) == Join(ValuesOf(l, val), SepSingly)

\* the while loop of containsNodeWithValue; `fuel` bounds the iterations
RECURSIVE L_containsLoop(_, _, _, _, _)
L_containsLoop(l, val, node, v, fuel) ==
  IF node = Null THEN Ret(l, FALSE)
  ELSE IF fuel = 0 THEN [list |-> l, err |-> "nonterminating", i |-> 0, ret |-> FALSE]
  ELSE IF val[node] = v THEN Ret(l, TRUE)
  ELSE L_containsLoop(l, val, l.next[node], v, fuel - 1)

\* containsNodeWithValue(value)
L_containsNodeWithValue(l, val, v) == L_containsLoop(l, val, l.head, v, Fuel)

\* the for loop of the constructor (i counts as in the source, from 1;
\* nodes[i - 1] and nodes[i] of the source are nodes[i] and nodes[i + 1] here)
RECURSIVE L_constructLoop(_, _, _)
L_constructLoop(l, nodes, i) ==
  IF ~(i < Len(nodes) /\ l.head # Null) THEN l
  ELSE L_constructLoop(L_insertAfter(l, nodes[i], nodes[i + 1]), nodes, i + 1)

\* constructor(...nodes), on the fresh list l
L_constructor(l, nodes) ==
  IF Len(nodes) # 0
    THEN L_constructLoop(L_setHead(l, nodes[1]), nodes, 1)
    ELSE l

\* ======================================================================
\*  DoublyLinkedList (non-generic)
\* ======================================================================

\* remove(node): a node without links is taken to be absent
N_remove(l, node) ==
  IF l.next[node] = Null /\ l.prev[node] = Null THEN l
  ELSE
    LET l1 == IF l.next[node] # Null
                THEN [l EXCEPT !.prev[l.next[node]] = l.prev[node]]
                ELSE [l EXCEPT !.tail = l.prev[node]]
        l2 == IF l1.prev[node] # Null
                THEN [l1 EXCEPT !.next[l1.prev[node]] = l1.next[node]]
                ELSE [l1 EXCEPT !.head = l1.next[node]]
        l3 == [l2 EXCEPT !.next[node] = Null]
    IN  [l3 EXCEPT !.prev[node] = Null]

\* insertBefore(existingNode, nodeToInsert)
N_insertBefore(l, existingNode, nodeToInsert) ==
  IF existingNode = nodeToInsert THEN l
  ELSE
    LET l1 == N_remove(l, nodeToInsert)
        l2 == [l1 EXCEPT !.next[nodeToInsert] = existingNode]
        l3 == [l2 EXCEPT !.prev[nodeToInsert] = l2.prev[existingNode]]
        l4 == IF l3.prev[nodeToInsert] # Null
                THEN [l3 EXCEPT !.next[l3.prev[nodeToInsert]] = nodeToInsert]
                ELSE [l3 EXCEPT !.head = nodeToInsert]
    IN  [l4 EXCEPT !.prev[existingNode] = nodeToInsert]

\* insertAfter(existingNode, nodeToInsert)
N_insertAfter(l, existingNode, nodeToInsert) ==
  IF existingNode = nodeToInsert THEN l
  ELSE
    LET l1 == N_remove(l, nodeToInsert)
        l2 == [l1 EXCEPT !.prev[nodeToInsert] = existingNode]
        l3 == [l2 EXCEPT !.next[nodeToInsert] = l2.next[existingNode]]
        l4 == IF l3.next[nodeToInsert] # Null
                THEN [l3 EXCEPT !.prev[l3.next[nodeToInsert]] = nodeToInsert]
                ELSE [l3 EXCEPT !.tail = nodeToInsert]
    IN  [l4 EXCEPT !.next[existingNode] = nodeToInsert]

\* setHead(node)
N_setHead(l, node) ==
  IF l.head = Null
    THEN [l EXCEPT !.head = node, !.tail = node]
    ELSE N_insertBefore(l, l.head, node)

\* setTail(node)
N_setTail(l, node) ==
  IF l.tail = Null
    THEN [l EXCEPT !.head = node, !.tail = node]
    ELSE N_insertAfter(l, l.tail, node)

\* the while loop of insertAtPosition: it breaks when the walk runs off the
\* end; reading .next of null (empty list) raises a TypeError
RECURSIVE N_walk(_, _, _, _)
N_walk(l, node, i, position) ==
  IF ~(i < position) THEN [node |-> node, i |-> i, err |-> "none"]
  ELSE IF node = Null THEN [node |-> node, i |-> i, err |-> "TypeError"]
  ELSE IF l.next[node] = Null THEN [node |-> Null, i |-> i + 1, err |-> "none"]
  ELSE N_walk(l, l.next[node], i + 1, position)

\* insertAtPosition(position, nodeToInsert)
N_insertAtPosition(l, position, nodeToInsert) ==
  LET l1 == N_remove(l, nodeToInsert)
      w  == N_walk(l1, l1.head, 1, position)
  IN  IF w.err # "none" THEN [list |-> l1, err |-> w.err, i |-> w.i]
      ELSE IF w.node = Null THEN Ok(N_setTail(l1, nodeToInsert))
      ELSE Ok(N_insertBefore(l1, w.node, nodeToInsert))

\* the while loop of removeNodesWithValue; `fuel` bounds the iterations
RECURSIVE N_removeLoop(_, _, _, _, _)
N_removeLoop(l, val, node, v, fuel) ==
  IF node = Null THEN Ok(l)
  ELSE IF fuel = 0 THEN [list |-> l, err |-> "nonterminating", i |-> 0]
  ELSE LET nextNode == l.next[node]
       IN  N_removeLoop(IF val[node] = v THEN N_remove(l, node) ELSE l,
                        val, nextNode, v, fuel - 1)

\* removeNodesWithValue(value)
N_removeNodesWithValue(l, val, v) == N_removeLoop(l, val, l.head, v, Fuel)

\* toString()
N_toString(l, val) == Join(ValuesOf(l, val), SepDoubly)

\* the while loop of containsNodeWithValue; `fuel` bounds the iterations
RECURSIVE N_containsLoop(_, _, _, _, _)
N_containsLoop(l, val, node, v, fuel) ==
  IF node = Null THEN Ret(l, FALSE)
  ELSE IF fuel = 0 THEN [list |-> l, err |-> "nonterminating", i |-> 0, ret |-> FALSE]
  ELSE IF val[node] = v THEN Ret(l, TRUE)
  ELSE N_containsLoop(l, val, l.next[node], v, fuel - 1)

\* containsNodeWithValue(value)
N_containsNodeWithValue(l, val, v) == N_containsLoop(l, val, l.head, v, Fuel)

\* the for loop of the constructor (i counts as in the source, from 1;
\* nodes[i - 1] and nodes[i] of the source are nodes[i] and nodes[i + 1] here)
RECURSIVE N_constructLoop(_, _, _)
N_constructLoop(l, nodes, i) ==
  IF ~(i < Len(nodes) /\ l.head # Null) THEN l
  ELSE N_constructLoop(N_insertAfter(l, nodes[i], nodes[i + 1]), nodes, i + 1)

\* constructor(...nodes), on the fresh list l
N_constructor(l, nodes) ==
  IF Len(nodes) # 0
    THEN N_constructLoop(N_setHead(l, nodes[1]), nodes, 1)
    ELSE l

\* ======================================================================
\*  State machine
\* ======================================================================
\* the three list classes; each behaviour exercises one of them, or
\* ("pair") a DoublyLinkedList<T> and a LinkedList<T> side by side with the
\* same calls
Variants == {"generic", "singly", "nongeneric", "pair"}

\* no call to report: the caller is between two calls
NoCall ==
  [op |-> "none", e |-> Null, n |-> Null, p |-> 0, v |-> 0,
   err |-> "none", i |-> 0, pre |-> D_empty, ret |-> Null, args |-> <<>>]

\* the argument lists of the constructor: up to MaxArgs nodes, repeats allowed
ArgLists == UNION {[1..k -> Nodes] : k \in 0..MaxArgs}

\* beforeEach: a pool of detached nodes with their values (nodes are
\* interchangeable, so values are taken in non-decreasing order), and
\* new DoublyLinkedList() / new LinkedList(): an empty list
Init ==
  /\ variant \in Variants
  /\ value \in {f \in [Nodes -> Values] : \A a, b \in Nodes : a < b => f[a] <= f[b]}
  /\ dll = D_empty
  /\ sll = L_empty
  /\ ndl = D_empty
  /\ last = NoCall

\* the record of a call: method, arguments, outcome (error, value returned),
\* and the list before it
CallRecord(op, e, n, p, v, r, pre) ==
  [op |-> op, e |-> e, n |-> n, p |-> p, v |-> v,
   err |-> r.err, i |-> r.i, pre |-> pre,
   ret |-> IF "ret" \in DOMAIN r THEN r.ret ELSE Null,
   args |-> IF "args" \in DOMAIN r THEN r.args ELSE <<>>]

\* result of a constructor call with the arguments nodes
Built(l, nodes) == [list |-> l, err |-> "none", i |-> 0, args |-> nodes]

\* one call on the DoublyLinkedList<T> under study
D_Call(op, e, n, p, v, r) ==
  /\ variant = "generic"
  /\ last.op = "none"
  /\ dll' = r.list
  /\ last' = CallRecord(op, e, n, p, v, r, dll)
  /\ UNCHANGED <<variant, value, sll, ndl>>

D_SetHead == \E n \in Nodes : D_Call("setHead", Null, n, 0, 0, Ok(D_setHead(dll, n)))

D_SetTail == \E n \in Nodes : D_Call("setTail", Null, n, 0, 0, Ok(D_setTail(dll, n)))

D_InsertBefore ==
  \E e \in InList(dll), n \in Nodes :
    D_Call("insertBefore", e, n, 0, 0, Ok(D_insertBefore(dll, e, n)))

D_InsertAfter ==
  \E e \in InList(dll), n \in Nodes :
    D_Call("insertAfter", e, n, 0, 0, Ok(D_insertAfter(dll, e, n)))

D_InsertAtPosition ==
  \E p \in Positions, n \in Nodes :
    D_Call("insertAtPosition", Null, n, p, 0, D_insertAtPosition(dll, p, n))

D_Remove == \E n \in Nodes : D_Call("remove", Null, n, 0, 0, Ok(D_remove(dll, n)))

D_RemoveNodesWithValue ==
  \E v \in Values :
    D_Call("removeNodesWithValue", Null, Null, 0, v, D_removeNodesWithValue(dll, value, v))

D_ContainsNodeWithValue ==
  \E v \in Values :
    D_Call("containsNodeWithValue", Null, Null, 0, v, D_containsNodeWithValue(dll, value, v))

D_ToString == D_Call("toString", Null, Null, 0, 0, Ret(dll, D_toString(dll, value)))

\* new DoublyLinkedList(...nodes) with the nodes of the pool still detached
D_Construct ==
  \E nodes \in ArgLists :
    /\ dll = D_empty
    /\ D_Call("constructor", Null, Null, 0, 0, Built(D_constructor(dll, nodes), nodes))

\* one call on the LinkedList<T> under study
L_Call(op, e, n, p, v, r) ==
  /\ variant = "singly"
  /\ last.op = "none"
  /\ sll' = r.list
  /\ last' = CallRecord(op, e, n, p, v, r, sll)
  /\ UNCHANGED <<variant, value, dll, ndl>>

L_SetHead == \E n \in Nodes : L_Call("setHead", Null, n, 0, 0, Ok(L_setHead(sll, n)))

L_InsertAfter ==
  \E e \in InList(sll), n \in Nodes :
    L_Call("insertAfter", e, n, 0, 0, Ok(L_insertAfter(sll, e, n)))

L_InsertAtPosition ==
  \E p \in Positions, n \in Nodes :
    L_Call("insertAtPosition", Null, n, p, 0, L_insertAtPosition(sll, p, n))

L_Remove == \E n \in Nodes : L_Call("remove", Null, n, 0, 0, Ok(L_remove(sll, n)))

L_RemoveNodesWithValue ==
  \E v \in Values :
    L_Call("removeNodesWithValue", Null, Null, 0, v, L_removeNodesWithValue(sll, value, v))

L_ContainsNodeWithValue ==
  \E v \in Values :
    L_Call("containsNodeWithValue", Null, Null, 0, v, L_containsNodeWithValue(sll, value, v))

L_ToString == L_Call("toString", Null, Null, 0, 0, Ret(sll, L_toString(sll, value)))

\* new LinkedList(...nodes) with the nodes of the pool still detached
L_Construct ==
  \E nodes \in ArgLists :
    /\ sll = L_empty
    /\ L_Call("constructor", Null, Null, 0, 0, Built(L_constructor(sll, nodes), nodes))

\* one call on the non-generic DoublyLinkedList under study
N_Call(op, e, n, p, v, r) ==
  /\ variant = "nongeneric"
  /\ last.op = "none"
  /\ ndl' = r.list
  /\ last' = CallRecord(op, e, n, p, v, r, ndl)
  /\ UNCHANGED <<variant, value, dll, sll>>

N_SetHead == \E n \in Nodes : N_Call("setHead", Null, n, 0, 0, Ok(N_setHead(ndl, n)))

N_SetTail == \E n \in Nodes : N_Call("setTail", Null, n, 0, 0, Ok(N_setTail(ndl, n)))

N_InsertBefore ==
  \E e \in InList(ndl), n \in Nodes :
    N_Call("insertBefore", e, n, 0, 0, Ok(N_insertBefore(ndl, e, n)))

N_InsertAfter ==
  \E e \in InList(ndl), n \in Nodes :
    N_Call("insertAfter", e, n, 0, 0, Ok(N_insertAfter(ndl, e, n)))

N_InsertAtPosition ==
  \E p \in Positions, n \in Nodes :
    N_Call("insertAtPosition", Null, n, p, 0, N_insertAtPosition(ndl, p, n))

N_Remove == \E n \in Nodes : N_Call("remove", Null, n, 0, 0, Ok(N_remove(ndl, n)))

N_RemoveNodesWithValue ==
  \E v \in Values :
    N_Call("removeNodesWithValue", Null, Null, 0, v, N_removeNodesWithValue(ndl, value, v))

N_ContainsNodeWithValue ==
  \E v \in Values :
    N_Call("containsNodeWithValue", Null, Null, 0, v, N_containsNodeWithValue(ndl, value, v))

N_ToString == N_Call("toString", Null, Null, 0, 0, Ret(ndl, N_toString(ndl, value)))

\* new DoublyLinkedList(...nodes) with the nodes of the pool still detached
N_Construct ==
  \E nodes \in ArgLists :
    /\ ndl = D_empty
    /\ N_Call("constructor", Null, Null, 0, 0, Built(N_constructor(ndl, nodes), nodes))

\* the same call on a DoublyLinkedList<T> and a LinkedList<T> that have
\* received the same calls so far; rd and rs are the two outcomes
P_Call(op, e, n, p, v, rd, rs) ==
  /\ variant = "pair"
  /\ last.op = "none"
  /\ dll' = rd.list
  /\ sll' = rs.list
  /\ last' = CallRecord(op, e, n, p, v, rd, dll)
  /\ UNCHANGED <<variant, value, ndl>>

P_SetHead ==
  \E n \in Nodes :
    P_Call("setHead", Null, n, 0, 0, Ok(D_setHead(dll, n)), Ok(L_setHead(sll, n)))

P_InsertAfter ==
  \E e \in InList(dll) \cap InList(sll), n \in Nodes :
    P_Call("insertAfter", e, n, 0, 0,
           Ok(D_insertAfter(dll, e, n)), Ok(L_insertAfter(sll, e, n)))

P_InsertAtPosition ==
  \E p \in Positions, n \in Nodes :
    P_Call("insertAtPosition", Null, n, p, 0,
           D_insertAtPosition(dll, p, n), L_insertAtPosition(sll, p, n))

P_Remove ==
  \E n \in Nodes :
    P_Call("remove", Null, n, 0, 0, Ok(D_remove(dll, n)), Ok(L_remove(sll, n)))

P_RemoveNodesWithValue ==
  \E v \in Values :
    P_Call("removeNodesWithValue", Null, Null, 0, v,
           D_removeNodesWithValue(dll, value, v), L_removeNodesWithValue(sll, value, v))

\* the caller has looked at the outcome of the call (the expect(...) lines
\* of the tests) and goes on to its next call
Observe ==
  /\ last.op # "none"
  /\ last' = NoCall
  /\ UNCHANGED <<variant, value, dll, sll, ndl>>

Next ==
  \/ D_SetHead
  \/ D_SetTail
  \/ D_InsertBefore
  \/ D_InsertAfter
  \/ D_InsertAtPosition
  \/ D_Remove
  \/ D_RemoveNodesWithValue
  \/ D_ContainsNodeWithValue
  \/ D_ToString
  \/ D_Construct
  \/ L_SetHead
  \/ L_InsertAfter
  \/ L_InsertAtPosition
  \/ L_Remove
  \/ L_RemoveNodesWithValue
  \/ L_ContainsNodeWithValue
  \/ L_ToString
  \/ L_Construct
  \/ N_SetHead
  \/ N_SetTail
  \/ N_InsertBefore
  \/ N_InsertAfter
  \/ N_InsertAtPosition
  \/ N_Remove
  \/ N_RemoveNodesWithValue
  \/ N_ContainsNodeWithValue
  \/ N_ToString
  \/ N_Construct
  \/ P_SetHead
  \/ P_InsertAfter
  \/ P_InsertAtPosition
  \/ P_Remove
  \/ P_RemoveNodesWithValue
  \/ Observe

Spec == Init /\ [][Next]_vars

\* ======================================================================
\*  Properties
\* ======================================================================
Without(s, n) == SelectSeq(s, LAMBDA x : x # n)

NoRepeat(s) == \A j, k \in 1..Len(s) : j # k => s[j] # s[k]

LastOf(s) == IF Len(s) = 0 THEN Null ELSE s[Len(s)]

FirstOf(s) == IF Len(s) = 0 THEN Null ELSE s[1]

\* the list the behaviour exercises
Cur == IF variant = "generic" THEN dll ELSE IF variant = "singly" THEN sll ELSE ndl

Insertions == {"setHead", "setTail", "insertBefore", "insertAfter", "insertAtPosition"}

\* C1: DoublyLinkedList<T>: in every reachable state (calls of
\* insertAtPosition that throw included) head = null iff tail = null iff
\* no node is reachable from head.
C1_HeadTailEmpty ==
  variant = "generic" =>
    /\ (dll.head = Null) <=> (dll.tail = Null)
    /\ (dll.tail = Null) <=> (InList(dll) = {})

\* a call of insertAtPosition that throws has emptied a one-node list
C1_Witness ==
  /\ variant = "generic"
  /\ last.op = "insertAtPosition"
  /\ last.err # "none"
  /\ Forward(last.pre) = <<last.n>>
  /\ dll.head = Null
  /\ dll.tail = Null

\* C2: DoublyLinkedList<T>: whenever the list is non-empty, head.prev = null
\* and tail.next = null.
C2_EndsHaveNoOuterLinks ==
  (variant = "generic" /\ dll.head # Null) =>
    /\ dll.prev[dll.head] = Null
    /\ dll.tail # Null
    /\ dll.next[dll.tail] = Null

\* a node has been inserted after the tail of a non-empty list
C2_Witness ==
  /\ variant = "generic"
  /\ last.op = "insertAfter"
  /\ last.e = last.pre.tail
  /\ last.n # last.e
  /\ dll.tail = last.n

\* C3: DoublyLinkedList<T>: for every node n in the list, n.next = m # null
\* implies m.prev = n, and n.prev = k # null implies k.next = n.
C3_LinksAreMutual ==
  variant = "generic" =>
    \A n \in InList(dll) :
      /\ dll.next[n] # Null => dll.prev[dll.next[n]] = n
      /\ dll.prev[n] # Null => dll.next[dll.prev[n]] = n

\* a node of the list has been moved to the slot between two other nodes
C3_Witness ==
  /\ variant = "generic"
  /\ last.op = "insertBefore"
  /\ last.n \in InList(last.pre)
  /\ last.n # last.e
  /\ dll.prev[last.n] # Null
  /\ last.pre.next[last.n] # last.e

\* C4: DoublyLinkedList<T> and LinkedList<T>: following next from head
\* reaches null after finitely many steps and visits no node twice, also
\* after inserting a node that is already in the list.
C4_NoCycle ==
  /\ variant = "generic" => (Len(Forward(dll)) <= NumNodes /\ NoRepeat(Forward(dll)))
  /\ variant = "singly" => (Len(Forward(sll)) <= NumNodes /\ NoRepeat(Forward(sll)))

\* a node of the singly-linked list has been re-inserted after its own successor
C4_Witness ==
  /\ variant = "singly"
  /\ last.op = "insertAfter"
  /\ last.n \in InList(last.pre)
  /\ last.pre.next[last.n] = last.e

\* C5: remove(node) on a list that contains node: node is no longer
\* reachable, its links are null, the other nodes keep their order (so head
\* is the former second node when node was head), tail is the last
\* remaining node, and the list is empty when node was its only node.
C5_RemovePresent ==
  (variant \in {"generic", "singly"} /\ last.op = "remove"
     /\ last.n \in InList(last.pre)) =>
    /\ last.n \notin InList(Cur)
    /\ Forward(Cur) = Without(Forward(last.pre), last.n)
    /\ Cur.next[last.n] = Null
    /\ variant = "generic" =>
         /\ dll.prev[last.n] = Null
         /\ dll.tail = LastOf(Without(Forward(last.pre), last.n))
         /\ dll.head = FirstOf(Without(Forward(last.pre), last.n))
    /\ Forward(last.pre) = <<last.n>> => Cur.head = Null

\* the head of a doubly-linked list that is its only node has been removed
C5_Witness ==
  /\ variant = "generic"
  /\ last.op = "remove"
  /\ last.pre.head = last.n
  /\ last.pre.tail = last.n
  /\ dll = D_empty

\* C6: DoublyLinkedList<T>: remove(node) of a detached node that is not in
\* the list changes nothing, for empty and non-empty lists.
C6_RemoveAbsentIsNoOp ==
  (variant = "generic" /\ last.op = "remove"
     /\ last.n \notin InList(last.pre)
     /\ last.pre.prev[last.n] = Null /\ last.pre.next[last.n] = Null) =>
    dll = last.pre

\* remove of a detached node was called on a non-empty list
C6_Witness ==
  /\ variant = "generic"
  /\ last.op = "remove"
  /\ last.n \notin InList(last.pre)
  /\ last.pre.head # Null
  /\ last.pre.prev[last.n] = Null /\ last.pre.next[last.n] = Null

\* C7: DoublyLinkedList<T> and LinkedList<T>: in every reachable state and
\* for every node, remove(node) twice leaves the same state as remove(node)
\* once.
C7_RemoveIdempotent ==
  /\ variant = "generic" =>
       \A n \in Nodes : D_remove(D_remove(dll, n), n) = D_remove(dll, n)
  /\ variant = "singly" =>
       \A n \in Nodes : L_remove(L_remove(sll, n), n) = L_remove(sll, n)
  /\ (variant = "generic" /\ last.op = "remove") => D_remove(dll, last.n) = dll
  /\ (variant = "singly" /\ last.op = "remove") => L_remove(sll, last.n) = sll

\* a middle node of a doubly-linked list has just been removed
C7_Witness ==
  /\ variant = "generic"
  /\ last.op = "remove"
  /\ last.n \in InList(last.pre)
  /\ last.pre.prev[last.n] # Null
  /\ last.pre.next[last.n] # Null

\* C8: DoublyLinkedList<T> and LinkedList<T>: a successful insertion of a
\* node n that was not in the list, followed by remove(n), restores the
\* forward sequence of nodes and toString(); also from the empty list.
C8_InsertThenRemove ==
  (last.op \in Insertions /\ last.err = "none" /\ last.n \notin InList(last.pre)) =>
    /\ variant = "generic" =>
         /\ Forward(D_remove(dll, last.n)) = Forward(last.pre)
         /\ D_toString(D_remove(dll, last.n), value) = D_toString(last.pre, value)
    /\ variant = "singly" =>
         /\ Forward(L_remove(sll, last.n)) = Forward(last.pre)
         /\ L_toString(L_remove(sll, last.n), value) = L_toString(last.pre, value)

\* a new node has been inserted into the empty doubly-linked list
C8_Witness ==
  /\ variant = "generic"
  /\ last.op \in Insertions
  /\ last.err = "none"
  /\ last.pre = D_empty
  /\ dll.head = last.n

\* C9: insertBefore(n, n) and insertAfter(n, n) (DoublyLinkedList<T>) and
\* insertAfter(n, n) (LinkedList<T>) change neither head, tail nor any link,
\* for every node and every list state; toString() is unchanged.
C9_SelfInsertionIsNoOp ==
  /\ variant = "generic" =>
       \A n \in Nodes : /\ D_insertBefore(dll, n, n) = dll
                        /\ D_insertAfter(dll, n, n) = dll
  /\ variant = "singly" => \A n \in Nodes : L_insertAfter(sll, n, n) = sll
  /\ (variant \in {"generic", "singly"} /\ last.op \in {"insertBefore", "insertAfter"}
        /\ last.e = last.n) =>
       /\ Cur = last.pre
       /\ variant = "generic" => D_toString(dll, value) = D_toString(last.pre, value)
       /\ variant = "singly" => L_toString(sll, value) = L_toString(last.pre, value)

\* a middle node of a doubly-linked list has been inserted before itself
C9_Witness ==
  /\ variant = "generic"
  /\ last.op = "insertBefore"
  /\ last.e = last.n
  /\ last.pre.prev[last.n] # Null
  /\ last.pre.next[last.n] # Null

\* C10: DoublyLinkedList<T>: after insertBefore(e, n) with e in the list and
\* n # e, n is the immediate predecessor of e, head = n iff e was first among
\* the nodes other than n, and the nodes other than n keep their order.
C10_InsertBefore ==
  (variant = "generic" /\ last.op = "insertBefore" /\ last.n # last.e) =>
    /\ dll.next[last.n] = last.e
    /\ dll.prev[last.e] = last.n
    /\ (dll.head = last.n) <=> (FirstOf(Without(Forward(last.pre), last.n)) = last.e)
    /\ Without(Forward(dll), last.n) = Without(Forward(last.pre), last.n)
    /\ last.n \in InList(dll)

\* the node directly after the head e has been moved before e
C10_Witness ==
  /\ variant = "generic"
  /\ last.op = "insertBefore"
  /\ last.pre.head = last.e
  /\ last.pre.next[last.e] = last.n
  /\ dll.head = last.n

\* the sequence s with n put at index p (1 = first)
PutAt(s, p, n) == SubSeq(s, 1, p - 1) \o <<n>> \o SubSeq(s, p, Len(s))

\* the index of e in the sequence s (0 when e is not in s)
IndexOf(s, e) == IF \E k \in 1..Len(s) : s[k] = e
                   THEN CHOOSE k \in 1..Len(s) : s[k] = e
                   ELSE 0

\* the nodes of the list before the call, other than the node argument
Others == Without(Forward(last.pre), last.n)

\* C11: DoublyLinkedList<T> and LinkedList<T>: after insertAfter(e, n) with
\* e in the list and n # e, n is the immediate successor of e, the nodes
\* other than n keep their order, and in the doubly-linked list tail = n iff
\* e was last among the nodes other than n.
C11_InsertAfter ==
  (variant \in {"generic", "singly"} /\ last.op = "insertAfter" /\ last.n # last.e) =>
    /\ Cur.next[last.e] = last.n
    /\ Forward(Cur) = PutAt(Others, IndexOf(Others, last.e) + 1, last.n)
    /\ Without(Forward(Cur), last.n) = Others
    /\ variant = "generic" =>
         /\ dll.prev[last.n] = last.e
         /\ (dll.tail = last.n) <=> (LastOf(Others) = last.e)

\* the head of a singly-linked list has been moved behind its last node
C11_Witness ==
  /\ variant = "singly"
  /\ last.op = "insertAfter"
  /\ last.pre.head = last.n
  /\ LastOf(Forward(last.pre)) = last.e
  /\ Len(Forward(last.pre)) = NumNodes
  /\ LastOf(Forward(sll)) = last.n

\* C12: DoublyLinkedList<T> and LinkedList<T>: after setHead(node), for a
\* node that was detached, the head, or elsewhere in the list, head is node
\* and the remaining nodes follow in their previous order; setHead of the
\* only node of a one-node list changes nothing.
C12_SetHead ==
  (variant \in {"generic", "singly"} /\ last.op = "setHead") =>
    /\ Cur.head = last.n
    /\ Forward(Cur) = <<last.n>> \o Others
    /\ Forward(last.pre) = <<last.n>> => Cur = last.pre

\* the tail of a doubly-linked list of several nodes has been made its head
C12_Witness ==
  /\ variant = "generic"
  /\ last.op = "setHead"
  /\ last.pre.tail = last.n
  /\ last.pre.head # last.n
  /\ dll.head = last.n

\* C13: DoublyLinkedList<T>: after setTail(node), for a node that was
\* detached, the tail, or elsewhere in the list, tail is node, node is the
\* last node of the forward traversal and the other nodes keep their order;
\* on an empty list head = tail = node.
C13_SetTail ==
  (variant = "generic" /\ last.op = "setTail") =>
    /\ dll.tail = last.n
    /\ Forward(dll) = Others \o <<last.n>>
    /\ last.pre.head = Null => dll.head = last.n

\* the head of a doubly-linked list of several nodes has been made its tail
C13_Witness ==
  /\ variant = "generic"
  /\ last.op = "setTail"
  /\ last.pre.head = last.n
  /\ last.pre.tail # last.n
  /\ dll.tail = last.n

\* C14: DoublyLinkedList<T> and LinkedList<T>: with m the number of nodes in
\* the list other than n and 1 <= p <= m + 1, insertAtPosition(p, n) succeeds,
\* n is the p-th node afterwards (tail = n for p = m + 1 in the doubly-linked
\* list) and the other nodes keep their order.
C14_InsertAtPosition ==
  (variant \in {"generic", "singly"} /\ last.op = "insertAtPosition"
     /\ 1 <= last.p /\ last.p <= Len(Others) + 1) =>
    /\ last.err = "none"
    /\ Forward(Cur) = PutAt(Others, last.p, last.n)
    /\ Forward(Cur)[last.p] = last.n
    /\ (variant = "generic" /\ last.p = Len(Others) + 1) => dll.tail = last.n

\* a node of the list has been moved to a position in the middle
C14_Witness ==
  /\ variant = "generic"
  /\ last.op = "insertAtPosition"
  /\ last.n \in InList(last.pre)
  /\ 1 < last.p /\ last.p < Len(Others) + 1
  /\ IndexOf(Forward(last.pre), last.n) # last.p
  /\ Forward(dll)[last.p] = last.n

\* C15: DoublyLinkedList<T> and LinkedList<T>: insertAtPosition(p, n) raises
\* an error for every list (the empty one included) and every p > m + 1,
\* and raises none when p <= m + 1, m being the number of nodes other than n.
C15_ErrorIffBeyondEnd ==
  (variant \in {"generic", "singly"} /\ last.op = "insertAtPosition") =>
    (last.err # "none") <=> (last.p > Len(Others) + 1)

\* insertAtPosition beyond the end of an empty singly-linked list has failed
C15_Witness ==
  /\ variant = "singly"
  /\ last.op = "insertAtPosition"
  /\ last.pre.head = Null
  /\ last.p > 1
  /\ last.err # "none"

\* C16: DoublyLinkedList<T> and LinkedList<T>: whenever insertAtPosition(p, n)
\* fails, the error raised is the one that reports the position, and the
\* length it reports is the number of nodes reachable from head at that moment.
C16_ErrorReportsLength ==
  (variant \in {"generic", "singly"} /\ last.op = "insertAtPosition"
     /\ last.err # "none") =>
    /\ last.err = "Error"
    /\ last.i = Len(Forward(Cur))

\* the sequence s without the nodes whose value is v
NotValued(s, v) == SelectSeq(s, LAMBDA x : value[x] # v)

\* C17: DoublyLinkedList<T> and LinkedList<T>: after removeNodesWithValue(v)
\* the forward sequence is the previous one without the nodes of value v, in
\* the same order; every removed node has null links; head (and tail) are
\* null when every node matched.
C17_RemoveNodesWithValue ==
  (variant \in {"generic", "singly"} /\ last.op = "removeNodesWithValue") =>
    /\ last.err = "none"
    /\ Forward(Cur) = NotValued(Forward(last.pre), last.v)
    /\ \A n \in InList(last.pre) :
         value[n] = last.v =>
           /\ Cur.next[n] = Null
           /\ variant = "generic" => dll.prev[n] = Null
    /\ variant = "generic" => dll.tail = LastOf(NotValued(Forward(last.pre), last.v))
    /\ NotValued(Forward(last.pre), last.v) = <<>> =>
         /\ Cur.head = Null
         /\ variant = "generic" => dll.tail = Null

\* two matching nodes in a row at the head, followed by a node that stays
C17_Witness ==
  /\ variant = "generic"
  /\ last.op = "removeNodesWithValue"
  /\ Len(Forward(last.pre)) >= 3
  /\ value[Forward(last.pre)[1]] = last.v
  /\ value[Forward(last.pre)[2]] = last.v
  /\ value[Forward(last.pre)[3]] # last.v
  /\ Len(Forward(dll)) = Len(Forward(last.pre)) - 2

\* C18: DoublyLinkedList<T> and LinkedList<T>: containsNodeWithValue(v)
\* returns true iff some node reachable from head has value v, false on the
\* empty list, and false right after removeNodesWithValue(v).
C18_ContainsNodeWithValue ==
  /\ (variant \in {"generic", "singly"} /\ last.op = "containsNodeWithValue") =>
       /\ last.err = "none"
       /\ last.ret <=> (\E n \in InList(Cur) : value[n] = last.v)
       /\ Cur.head = Null => ~last.ret
  /\ (variant = "generic" /\ last.op = "removeNodesWithValue") =>
       ~D_containsNodeWithValue(dll, value, last.v).ret
  /\ (variant = "singly" /\ last.op = "removeNodesWithValue") =>
       ~L_containsNodeWithValue(sll, value, last.v).ret

\* the value was found in a node behind a head of another value
C18_Witness ==
  /\ variant = "generic"
  /\ last.op = "containsNodeWithValue"
  /\ last.ret = TRUE
  /\ value[dll.head] # last.v

\* C19: toString() returns the values of the nodes in forward order, one per
\* node reachable from head, with ' <-> ' (DoublyLinkedList<T>) or ' -> '
\* (LinkedList<T>) between neighbours: empty for an empty list, the bare
\* value for a one-node list.
C19_ToString ==
  (variant \in {"generic", "singly"} /\ last.op = "toString") =>
    LET f   == Forward(Cur)
        sep == IF variant = "generic" THEN SepDoubly ELSE SepSingly
    IN  /\ Len(last.ret) = IF Len(f) = 0 THEN 0 ELSE 2 * Len(f) - 1
        /\ \A k \in 1..Len(f) : last.ret[2 * k - 1] = value[f[k]]
        /\ \A k \in 1..(Len(f) - 1) : last.ret[2 * k] = sep
        /\ Len(f) = 0 => last.ret = <<>>
        /\ Len(f) = 1 => last.ret = <<value[Cur.head]>>

\* toString() of a doubly-linked list of all the nodes of the pool
C19_Witness ==
  /\ variant = "generic"
  /\ last.op = "toString"
  /\ Len(Forward(dll)) = NumNodes
  /\ Len(last.ret) = 2 * NumNodes - 1

\* C20: construction from pairwise distinct detached nodes: the forward
\* traversal is the argument sequence, head is the first argument, tail the
\* last (doubly-linked list); without arguments the list is empty.
C20_Constructor ==
  (variant \in {"generic", "singly"} /\ last.op = "constructor"
     /\ NoRepeat(last.args)) =>
    /\ Forward(Cur) = last.args
    /\ Cur.head = FirstOf(last.args)
    /\ variant = "generic" => dll.tail = LastOf(last.args)
    /\ last.args = <<>> => Cur = last.pre

\* a doubly-linked list has been built from three distinct nodes
C20_Witness ==
  /\ variant = "generic"
  /\ last.op = "constructor"
  /\ Len(last.args) = 3
  /\ NoRepeat(last.args)
  /\ dll.head = last.args[1]
  /\ dll.tail = last.args[3]

\* C21: DoublyLinkedList<T> and LinkedList<T>: after every successful
\* insertion (setHead, setTail, insertBefore, insertAfter, insertAtPosition)
\* of a node that is already in the list, the number and the set of nodes in
\* the list are unchanged and the node appears exactly once; when the node
\* was not in the list the number of nodes grows by exactly one.
C21_InsertIsMove ==
  (variant \in {"generic", "singly"} /\ last.op \in Insertions /\ last.err = "none") =>
    /\ Len(SelectSeq(Forward(Cur), LAMBDA x : x = last.n)) = 1
    /\ last.n \in InList(last.pre) =>
         /\ Len(Forward(Cur)) = Len(Forward(last.pre))
         /\ InList(Cur) = InList(last.pre)
    /\ last.n \notin InList(last.pre) =>
         /\ Len(Forward(Cur)) = Len(Forward(last.pre)) + 1
         /\ InList(Cur) = InList(last.pre) \cup {last.n}

\* the last node of a full doubly-linked list has been moved to position 2
C21_Witness ==
  /\ variant = "generic"
  /\ last.op = "insertAtPosition"
  /\ last.err = "none"
  /\ last.p = 2
  /\ Len(Forward(last.pre)) = NumNodes
  /\ last.pre.tail = last.n
  /\ Forward(dll)[2] = last.n
  /\ Len(Forward(dll)) = NumNodes

\* C22: DoublyLinkedList<T> and LinkedList<T>: no call other than
\* insertAtPosition ends in an error; on the empty list toString() returns
\* the empty string, containsNodeWithValue returns false, and remove and
\* removeNodesWithValue complete and leave the list empty.
C22_OnlyInsertAtPositionFails ==
  (variant \in {"generic", "singly"} /\ last.op \notin {"none", "insertAtPosition"}) =>
    /\ last.err = "none"
    /\ last.pre.head = Null =>
         /\ last.op = "toString" => last.ret = <<>>
         /\ last.op = "containsNodeWithValue" => last.ret = FALSE
         /\ last.op \in {"remove", "removeNodesWithValue"} =>
              /\ Cur.head = Null
              /\ InList(Cur) = {}
              /\ variant = "generic" => dll.tail = Null

\* containsNodeWithValue has been called on the empty doubly-linked list
C22_Witness ==
  /\ variant = "generic"
  /\ last.op = "containsNodeWithValue"
  /\ last.pre.head = Null
  /\ last.ret = FALSE
  /\ last.err = "none"

\* C23: DoublyLinkedList<T> and LinkedList<T>: in every reachable state a
\* node that is not reachable from head has null links, and no node of the
\* list links to a node that is not in the list.
C23_NoDanglingLinks ==
  /\ variant = "generic" =>
       /\ \A n \in Nodes \ InList(dll) : dll.prev[n] = Null /\ dll.next[n] = Null
       /\ \A n \in InList(dll) :
            /\ dll.prev[n] \in InList(dll) \cup {Null}
            /\ dll.next[n] \in InList(dll) \cup {Null}
  /\ variant = "singly" =>
       /\ \A n \in Nodes \ InList(sll) : sll.next[n] = Null
       /\ \A n \in InList(sll) : sll.next[n] \in InList(sll) \cup {Null}

\* a failed insertAtPosition has taken a linked node out of a singly-linked list
C23_Witness ==
  /\ variant = "singly"
  /\ last.op = "insertAtPosition"
  /\ last.err # "none"
  /\ last.pre.next[last.n] # Null
  /\ last.n \notin InList(sll)
  /\ sll.next[last.n] = Null

\* the structural invariants of a doubly-linked list: head and tail are null
\* together, the ends have no outer links, links are mutual, no node repeats
D_WellFormed(l) ==
  /\ (l.head = Null) <=> (l.tail = Null)
  /\ (l.tail = Null) <=> (InList(l) = {})
  /\ l.head # Null => (l.prev[l.head] = Null /\ l.next[l.tail] = Null)
  /\ \A n \in InList(l) :
       /\ l.next[n] # Null => l.prev[l.next[n]] = n
       /\ l.prev[n] # Null => l.next[l.prev[n]] = n
  /\ Len(Forward(l)) <= NumNodes
  /\ NoRepeat(Forward(l))
  /\ l.tail = LastOf(Forward(l))

\* the structural invariants of a singly-linked list: the chain from head
\* ends and no node repeats
L_WellFormed(l) ==
  /\ Len(Forward(l)) <= NumNodes
  /\ NoRepeat(Forward(l))

\* the entries of s that do not occur again further on, in their order
RECURSIVE ByLastOccurrence(_)
ByLastOccurrence(s) ==
  IF Len(s) = 0 THEN <<>>
  ELSE IF \E k \in 2..Len(s) : s[k] = s[1] THEN ByLastOccurrence(Tail(s))
  ELSE <<s[1]>> \o ByLastOccurrence(Tail(s))

\* C24: construction from detached nodes given with repeats
\* (DoublyLinkedList<T> and LinkedList<T>): no error is raised, the list
\* holds each distinct argument exactly once, in the order of the arguments'
\* last occurrences, and the structural invariants hold.
C24_ConstructorWithRepeats ==
  (variant \in {"generic", "singly"} /\ last.op = "constructor") =>
    /\ last.err = "none"
    /\ Forward(Cur) = ByLastOccurrence(last.args)
    /\ InList(Cur) = {last.args[k] : k \in 1..Len(last.args)}
    /\ NoRepeat(Forward(Cur))
    /\ variant = "generic" => D_WellFormed(dll)
    /\ variant = "singly" => L_WellFormed(sll)

\* a singly-linked list has been built from arguments whose first node
\* comes again after another node
C24_Witness ==
  /\ variant = "singly"
  /\ last.op = "constructor"
  /\ Len(last.args) >= 3
  /\ last.args[1] = last.args[3]
  /\ last.args[1] # last.args[2]
  /\ sll.head = last.args[2]
  /\ last.args[1] \in InList(sll)

\* C25: DoublyLinkedList<T> and LinkedList<T>: after insertAtPosition(p, n)
\* has raised an error, n is detached (null links, not reachable), the list
\* holds the nodes it had before other than n in their previous order, the
\* structural invariants hold, and the list is as before the call iff n was
\* not in it.
C25_FailedInsertDetaches ==
  (variant \in {"generic", "singly"} /\ last.op = "insertAtPosition"
     /\ last.err # "none") =>
    /\ last.n \notin InList(Cur)
    /\ Cur.next[last.n] = Null
    /\ Forward(Cur) = Others
    /\ (Cur = last.pre) <=> (last.n \notin InList(last.pre))
    /\ variant = "generic" => (dll.prev[last.n] = Null /\ D_WellFormed(dll))
    /\ variant = "singly" => L_WellFormed(sll)

\* the head of a doubly-linked list of several nodes was given to an
\* insertAtPosition that threw
C25_Witness ==
  /\ variant = "generic"
  /\ last.op = "insertAtPosition"
  /\ last.err = "Error"
  /\ last.pre.head = last.n
  /\ last.pre.tail # last.n
  /\ dll.head = last.pre.next[last.n]

\* C26: a LinkedList<T> and a DoublyLinkedList<T> that start empty and
\* receive the same calls of setHead, insertAfter, insertAtPosition, remove
\* and removeNodesWithValue have, after every call, the same forward
\* sequence of nodes and the same containsNodeWithValue results, and
\* insertAtPosition fails on one exactly when it fails on the other.
C26_SameObservations ==
  variant = "pair" =>
    /\ Forward(dll) = Forward(sll)
    /\ dll.head = sll.head
    /\ \A v \in Values :
         D_containsNodeWithValue(dll, value, v).ret
           = L_containsNodeWithValue(sll, value, v).ret
    /\ \A p \in Positions, n \in Nodes :
         (D_insertAtPosition(dll, p, n).err # "none")
           <=> (L_insertAtPosition(sll, p, n).err # "none")
    /\ last.op = "insertAtPosition" =>
         (last.err # "none") <=> (last.p > Len(Forward(sll)) + 1)

\* both lists have lost two nodes of the same value in one call and a node
\* of another value remains in both
C26_Witness ==
  /\ variant = "pair"
  /\ last.op = "removeNodesWithValue"
  /\ Len(Forward(last.pre)) = Len(Forward(sll)) + 2
  /\ Len(Forward(sll)) >= 1
  /\ Forward(dll) = Forward(sll)

\* backward traversal: node = this.tail; while (node) node = node.prev,
\* cut off after `fuel` nodes
RECURSIVE BwdFrom(_, _, _)
BwdFrom(pv, node, fuel) ==
  IF node = Null \/ fuel = 0 THEN <<>>
  ELSE <<node>> \o BwdFrom(pv, pv[node], fuel - 1)

Backward(l) == BwdFrom(l.prev, l.tail, Fuel)

Reverse(s) == [k \in 1..Len(s) |-> s[Len(s) + 1 - k]]

\* C27: DoublyLinkedList<T>: in every reachable state tail is the last node
\* reached by following next from head, and following prev from tail visits
\* the nodes of the forward traversal in reverse order, ending at head.
C27_BackwardIsReverse ==
  variant = "generic" =>
    /\ dll.tail = LastOf(Forward(dll))
    /\ Backward(dll) = Reverse(Forward(dll))
    /\ LastOf(Backward(dll)) = dll.head

\* a node has been put between two nodes of a doubly-linked list that now
\* holds every node of the pool
C27_Witness ==
  /\ variant = "generic"
  /\ last.op = "insertAfter"
  /\ last.n # last.e
  /\ dll.next[last.n] # Null
  /\ Len(Backward(dll)) = NumNodes
  /\ Backward(dll)[1] = dll.tail
  /\ Backward(dll)[NumNodes] = dll.head

\* C28: DoublyLinkedList<T> and LinkedList<T>: a call of toString() or of
\* containsNodeWithValue(v) leaves head, tail, every link and every node's
\* value as they were.
C28_QueriesArePure ==
  [][(variant \in {"generic", "singly"}
        /\ last'.op \in {"toString", "containsNodeWithValue"})
       => (dll' = dll /\ sll' = sll /\ value' = value)]_vars

\* containsNodeWithValue has found the value behind the head of a
\* singly-linked list and the list is as it was
C28_Witness ==
  /\ variant = "singly"
  /\ last.op = "containsNodeWithValue"
  /\ last.ret = TRUE
  /\ value[sll.head] # last.v
  /\ sll = last.pre

\* C29: DoublyLinkedList<T> and LinkedList<T>: every call terminates; in
\* every reachable state the loops of remove (singly-linked),
\* removeNodesWithValue, containsNodeWithValue, toString and insertAtPosition
\* reach their exit, whatever the arguments.
C29_Terminates ==
  /\ variant \in {"generic", "singly"} => last.err \in {"none", "Error", "TypeError"}
  /\ variant = "generic" =>
       /\ Len(Forward(dll)) <= NumNodes
       /\ \A v \in Values :
            /\ D_removeNodesWithValue(dll, value, v).err # "nonterminating"
            /\ D_containsNodeWithValue(dll, value, v).err # "nonterminating"
       /\ \A p \in Positions, n \in Nodes :
            /\ D_insertAtPosition(dll, p, n).err \in {"none", "Error", "TypeError"}
            /\ D_walk(dll, dll.head, 1, p).i <= IF p > 1 THEN p ELSE 1
  /\ variant = "singly" =>
       /\ Len(Forward(sll)) <= NumNodes
       /\ \A n \in Nodes : L_scan(sll, sll.head, Null, n, Fuel).done
       /\ \A v \in Values :
            /\ L_removeNodesWithValue(sll, value, v).err # "nonterminating"
            /\ L_containsNodeWithValue(sll, value, v).err # "nonterminating"
       /\ \A p \in Positions, n \in Nodes :
            /\ L_insertAtPosition(sll, p, n).err \in {"none", "Error", "TypeError"}
            /\ L_walk(sll, sll.head, Null, 1, p).i <= IF p > 1 THEN p ELSE 1

\* remove has scanned a singly-linked list to its end without finding the node
C29_Witness ==
  /\ variant = "singly"
  /\ last.op = "remove"
  /\ last.n \notin InList(last.pre)
  /\ Len(Forward(last.pre)) = NumNodes - 1
  /\ sll = last.pre

\* C30: DoublyLinkedList<T> and LinkedList<T>: insertAtPosition(p, n) with
\* p <= 1 (0 and negative positions included) raises no error and makes n
\* the head, with the same result as insertAtPosition(1, n); on an empty
\* list head = n, and tail = n in the doubly-linked list.
C30_PositionBelowOneIsHead ==
  (variant \in {"generic", "singly"} /\ last.op = "insertAtPosition" /\ last.p <= 1) =>
    /\ last.err = "none"
    /\ Cur.head = last.n
    /\ Forward(Cur) = <<last.n>> \o Others
    /\ variant = "generic" =>
         /\ dll = D_insertAtPosition(last.pre, 1, last.n).list
         /\ last.pre.head = Null => dll.tail = last.n
    /\ variant = "singly" => sll = L_insertAtPosition(last.pre, 1, last.n).list

\* a node has been inserted at a negative position into an empty
\* doubly-linked list
C30_Witness ==
  /\ variant = "generic"
  /\ last.op = "insertAtPosition"
  /\ last.p < 0
  /\ last.pre.head = Null
  /\ dll.head = last.n
  /\ dll.tail = last.n

\* C31: non-generic DoublyLinkedList: insertAtPosition(p, n) with p greater
\* than the number of nodes in the list never fails, the empty list
\* included; n becomes the tail (and the head when the list was empty).
C31_ClampNeverFails ==
  (variant = "nongeneric" /\ last.op = "insertAtPosition"
     /\ last.p > Len(Forward(last.pre))) =>
    /\ last.err = "none"
    /\ ndl.tail = last.n
    /\ LastOf(Forward(ndl)) = last.n
    /\ last.pre.head = Null => ndl.head = last.n

\* C32: non-generic DoublyLinkedList: remove(node) detaches every node
\* reachable from head, the only node of the list included (the list is
\* then empty, head = tail = null), and removeNodesWithValue(v) leaves no
\* node of value v in the list.
C32_RemoveSoleNode ==
  /\ (variant = "nongeneric" /\ last.op = "remove" /\ last.n \in InList(last.pre)) =>
       /\ last.n \notin InList(ndl)
       /\ Forward(last.pre) = <<last.n>> => (ndl.head = Null /\ ndl.tail = Null)
  /\ (variant = "nongeneric" /\ last.op = "removeNodesWithValue") =>
       \A n \in InList(ndl) : value[n] # last.v

====
